---- MODULE Spec2Model ----
(***************************************************************************)
(* Bioethics Forum API (src/main.py): topics, posts under topics, comments *)
(* under posts, agree/disagree votes on topics and likes on posts, kept in *)
(* three collections of a document store.                                  *)
(*                                                                         *)
(* Every round trip to the store (db.command, update_one, find_one,        *)
(* count_documents, insert) is one atomic step; a handler that makes       *)
(* several round trips is several steps, and concurrent requests           *)
(* interleave between them.  The checks a handler makes on its own         *)
(* arguments before its first round trip belong to its first step.         *)
(*                                                                         *)
(* The text fields of the payloads (title, prompt, content, author) are    *)
(* copied into the record and never read again; the records of the model   *)
(* carry the fields the handlers read or write.                            *)
(***************************************************************************)
EXTENDS Integers, Sequences, FiniteSets, TLC

\* ------------------------------------------------------------------ bounds

\* concurrent requests (one handler invocation each)
NumReq == 2
\* the server clock runs over 0..MaxTime
MaxTime == 1
\* the identifiers a request may name are 0..MaxOid, in either letter case
MaxOid == 3
\* the identifiers a listing request may name are 1..ListOids, in either case
ListOids == 2
\* the listings are checked on collections of up to Extra records, and of up
\* to Extra records fewer or more than the limit of the listing
Extra == 2

\* ------------------------------------------------------- program constants

TOPIC_LIMIT == 100
POST_LIMIT == 200
COMMENT_LIMIT == 200

HTTP_OK == 200
HTTP_BAD_REQUEST == 400
HTTP_NOT_FOUND == 404
HTTP_SERVER_ERROR == 500

\* ------------------------------------------------------------- identifiers

\* An identifier string of a request: the 24 hex digits of identifier n
\* written in lower or upper case, or a string that is no identifier.
\* The store generates the identifiers 1, 2, ...; identifier 0 is a well-formed
\* one that it never generates.
IdStr == [n : 0..MaxOid, form : {"lower", "upper"}] \cup {[n |-> 0, form |-> "bad"]}

\* bson.ObjectId(s) accepts the hex digits in either case.
ObjectIdValid(s) == s.form \in {"lower", "upper"}

ObjectId(s) == s.n

\* str(ObjectId) is always the lower-case hex form.
str(oid) == [n |-> oid, form |-> "lower"]

\* ensure_objectid raising HTTPException(400, "Invalid ID")
InvalidID == -1

\* ensure_objectid: the ObjectId, or InvalidID for the exception
ensure_objectid(id_str) == IF ObjectIdValid(id_str) THEN ObjectId(id_str) ELSE InvalidID

\* ------------------------------------------------------------------- state

VARIABLES
    db,         \* "connected", or "None" when the import found no database
    topic,      \* collection "topic": sequence of records in natural order
    post,       \* collection "post"
    comment,    \* collection "comment"
    next_oid,   \* the next identifier the store generates
    now,        \* the server clock
    pc,         \* pc[p]: where request p is in its handler
    req,        \* req[p]: the handler of request p and what it holds: the identifier
                \*         string of the payload (create_post, create_comment), the
                \*         ObjectId made of the identifier string, the vote or action
    lt,         \* lt[p]: the localTime request p read from serverStatus, until it is used
    pre,        \* pre[p]: the target record as stored just before p's update_one,
                \*         kept until p responds
    resp,       \* resp[p]: the response of request p
    listing     \* the response of the last listing request

vars == <<db, topic, post, comment, next_oid, now, pc, req, lt, pre, resp, listing>>

Procs == 1..NumReq

NoReq == [op |-> "none", id |-> [n |-> 0, form |-> "bad"], oid |-> InvalidID, arg |-> "none"]
NoResp == [status |-> 0, body |-> <<>>]
NoListing == [op |-> "none", id |-> [n |-> 0, form |-> "bad"], status |-> 0, docs |-> <<>>]

\* updated_at of a record that has none (absent field or null): x.get("updated_at") is None
None == -1

\* ------------------------------------------------------- store primitives

\* indexes of the records of coll whose _id is oid
Matching(coll, oid) == {i \in 1..Len(coll) : coll[i]._id = oid}

\* res.matched_count of update_one({"_id": oid}, ...)
matched_count(coll, oid) == IF Matching(coll, oid) = {} THEN 0 ELSE 1

\* count_documents({"_id": oid}): a bug that skips the existence check
count_documents_always(coll, oid) == 1

\* db[coll].count_documents({"_id": oid})
count_documents(coll, oid) == Cardinality(Matching(coll, oid))

\* db[coll].find_one({"_id": oid}): <<record>>, or <<>> for None
find_one(coll, oid) ==
    IF Matching(coll, oid) = {} THEN <<>>
    ELSE <<coll[CHOOSE i \in Matching(coll, oid) : TRUE]>>

\* the selected counter of a vote: swapped
inc_field_swapped(vote) == IF vote = "agree" THEN "disagree_count" ELSE "agree_count"

\* inc_field = "agree_count" if payload.vote == "agree" else "disagree_count"
inc_field(vote) == IF vote = "agree" THEN "agree_count" ELSE "disagree_count"

\* update_one with {"$set": {field: 1, "updated_at": ts}}: the counter is overwritten
update_one_set(coll, oid, field, ts) ==
    [i \in 1..Len(coll) |->
        IF coll[i]._id = oid
        THEN [coll[i] EXCEPT ![field] = 1, !.updated_at = ts]
        ELSE coll[i]]

\* update_one with {"$set": {"updated_at": ts}} alone: the "$inc" is forgotten
update_one_noinc(coll, oid, field, ts) ==
    [i \in 1..Len(coll) |->
        IF coll[i]._id = oid THEN [coll[i] EXCEPT !.updated_at = ts] ELSE coll[i]]

\* update_one with upsert=True: a record is created when none matches
update_one_upsert(coll, oid, field, ts) ==
    IF Matching(coll, oid) = {}
    THEN Append(coll, [_id |-> oid, updated_at |-> ts])
    ELSE [i \in 1..Len(coll) |->
            IF coll[i]._id = oid
            THEN [coll[i] EXCEPT ![field] = @ + 1, !.updated_at = ts]
            ELSE coll[i]]

\* db[coll].update_one({"_id": oid}, {"$inc": {field: 1}, "$set": {"updated_at": ts}}):
\* one atomic operation of the store on the record that matches, none otherwise
update_one(coll, oid, field, ts) ==
    [i \in 1..Len(coll) |->
        IF coll[i]._id = oid
        THEN [coll[i] EXCEPT ![field] = @ + 1, !.updated_at = ts]
        ELSE coll[i]]

\* doc["id"] = str(doc.pop("_id"))
normalize(doc) ==
    [f \in (DOMAIN doc \ {"_id"}) \cup {"id"} |->
        IF f = "id" THEN str(doc._id) ELSE doc[f]]

\* create_document(collection, data) of the database module: the record is data
\* with the store's next identifier and the timestamps of the current time
\* (created_at, which nothing reads or writes afterwards, is left out; updated_at)
create_document(coll, data, oid, time) ==
    Append(coll, [f \in DOMAIN data \cup {"_id", "updated_at"} |->
                    CASE f = "_id" -> oid
                      [] f = "updated_at" -> time
                      [] OTHER -> data[f]])

\* a record matches a filter when it has every field of the filter, with its value
Matches(doc, filter) == \A f \in DOMAIN filter : f \in DOMAIN doc /\ doc[f] = filter[f]

\* the first n elements of a sequence
Take(seq, n) == SubSeq(seq, 1, IF Len(seq) < n THEN Len(seq) ELSE n)

\* get_documents(collection, filter, limit) of the database module: the records
\* that match the filter, in the store's natural order, cut to the first limit
get_documents(coll, filter, limit) ==
    Take(SelectSeq(coll, LAMBDA d : Matches(d, filter)), limit)

\* for d in docs: d["id"] = str(d.pop("_id"))
normalize_all(docs) == [i \in 1..Len(docs) |-> normalize(docs[i])]

\* x.get("updated_at") < y.get("updated_at") raises TypeError when either is None
Comparable(docs) == \A i \in 1..Len(docs) : docs[i].updated_at # None

\* docs.sort(key=lambda x: x.get("updated_at"), reverse=True): a stable sort.
\* Record i comes after the records of a later updated_at and after the
\* records of the same updated_at that stood before it.
sort_desc(docs) ==
    LET n == Len(docs)
        before(i) == {j \in 1..n : \/ docs[j].updated_at > docs[i].updated_at
                                   \/ docs[j].updated_at = docs[i].updated_at /\ j < i}
        place == [i \in 1..n |-> Cardinality(before(i)) + 1] @@ <<>>
        at == [k \in 1..n |-> CHOOSE i \in 1..n : place[i] = k] @@ <<>>
    IN [k \in 1..n |-> docs[at[k]]]

\* the response of a listing handler: the sorted records, or the 500 of the
\* TypeError that the sort raises as soon as it compares a None
list_response(op, id, docs) ==
    IF Len(docs) >= 2 /\ ~Comparable(docs)
    THEN [op |-> op, id |-> id, status |-> HTTP_SERVER_ERROR, docs |-> <<>>]
    ELSE [op |-> op, id |-> id, status |-> HTTP_OK, docs |-> sort_desc(normalize_all(docs))]

\* ---------------------------------------------------------- record builders

\* create_topic: data
topic_data == [agree_count |-> 0, disagree_count |-> 0]

\* create_post storing payload.topic_id as it came
post_data_raw(topic_id, oid) == [topic_id |-> topic_id, like_count |-> 0]

\* create_post: data, with "topic_id": str(oid)
post_data(topic_id, oid) == [topic_id |-> str(oid), like_count |-> 0]

\* create_comment: data, with "post_id": str(poid)
comment_data(post_id, poid) == [post_id |-> str(poid), like_count |-> 0]

\* ------------------------------------------------------------------- Init

IdleProcs ==
    /\ pc = [p \in Procs |-> "idle"]
    /\ req = [p \in Procs |-> NoReq]
    /\ lt = [p \in Procs |-> 0]
    /\ pre = [p \in Procs |-> <<>>]
    /\ resp = [p \in Procs |-> NoResp]
    /\ listing = NoListing

\* The store after create_topic, create_post on that topic and create_comment
\* on that post, all at time 0.
SeededStore ==
    /\ topic = create_document(<<>>, topic_data, 1, 0)
    /\ post = create_document(<<>>, post_data(str(1), 1), 2, 0)
    /\ comment = create_document(<<>>, comment_data(str(2), 2), 3, 0)
    /\ next_oid = 4

EmptyStore ==
    /\ topic = <<>>
    /\ post = <<>>
    /\ comment = <<>>
    /\ next_oid = 1

Init ==
    /\ IdleProcs
    /\ now = 0
    /\ \/ db = "connected" /\ (EmptyStore \/ SeededStore)
       \/ db = "None" /\ EmptyStore

\* ---------------------------------------------------------------- handlers

\* Requests are numbered in the order they arrive: request p arrives after
\* request p - 1 has.
Arrives(p) ==
    /\ pc[p] = "idle"
    /\ p > 1 => pc[p - 1] # "idle"

\* The identifier strings a request can carry: a client learns identifiers from
\* the responses, so it names one the store has generated, one the store never
\* generates, or a string that is no identifier.
Nameable == {s \in IdStr : s.n < next_oid}

Respond(p, status, body) ==
    /\ resp' = [resp EXCEPT ![p] = [status |-> status, body |-> body]]
    /\ pc' = [pc EXCEPT ![p] = "done"]

\* request p, of handler op, is taken up
Accept(p, op, id, oid, arg) ==
    req' = [req EXCEPT ![p] = [op |-> op, id |-> id, oid |-> oid, arg |-> arg]]

\* request p is refused before the handler reaches the store: raise
\* HTTPException(status); of a refused request only the handler is remembered
Refuse(p, op, status) ==
    /\ Accept(p, op, NoReq.id, NoReq.oid, "none")
    /\ Respond(p, status, <<>>)

\* POST /api/topics
create_topic(p) ==
    /\ Arrives(p)
    /\ IF db = "None"
       THEN /\ Refuse(p, "create_topic", HTTP_SERVER_ERROR)
            /\ UNCHANGED <<topic, next_oid>>
       ELSE /\ Accept(p, "create_topic", NoReq.id, NoReq.oid, "none")
            /\ topic' = create_document(topic, topic_data, next_oid, now)
            /\ next_oid' = next_oid + 1
            /\ Respond(p, HTTP_OK, <<[id |-> str(next_oid)]>>)
    /\ UNCHANGED <<db, post, comment, now, lt, pre, listing>>

\* POST /api/topics/{topic_id}/vote, up to the serverStatus command
vote_topic(p) ==
    /\ Arrives(p)
    /\ \E topic_id \in Nameable, vote \in {"agree", "disagree", "abstain"} :
        /\ IF db = "None"
           THEN Refuse(p, "vote_topic", HTTP_SERVER_ERROR) /\ UNCHANGED lt
           ELSE IF vote \notin {"agree", "disagree"}
           THEN Refuse(p, "vote_topic", HTTP_BAD_REQUEST) /\ UNCHANGED lt
           ELSE IF ensure_objectid(topic_id) = InvalidID
           THEN Refuse(p, "vote_topic", HTTP_BAD_REQUEST) /\ UNCHANGED lt
           ELSE /\ Accept(p, "vote_topic", NoReq.id, ensure_objectid(topic_id), vote)
                /\ lt' = [lt EXCEPT ![p] = now]
                /\ pc' = [pc EXCEPT ![p] = "vote_update"]
                /\ UNCHANGED resp
    /\ UNCHANGED <<db, topic, post, comment, next_oid, now, pre, listing>>

\* vote_topic: update_one and the matched_count test
vote_topic_update(p) ==
    /\ pc[p] = "vote_update"
    /\ LET oid == req[p].oid
       IN /\ topic' = update_one(topic, oid, inc_field(req[p].arg), lt[p])
          /\ lt' = [lt EXCEPT ![p] = 0]
          /\ IF matched_count(topic, oid) = 0
             THEN Respond(p, HTTP_NOT_FOUND, <<>>) /\ UNCHANGED pre
             ELSE /\ pc' = [pc EXCEPT ![p] = "vote_reread"]
                  /\ pre' = [pre EXCEPT ![p] = <<topic[CHOOSE i \in Matching(topic, oid) : TRUE]>>]
                  /\ UNCHANGED resp
    /\ UNCHANGED <<db, post, comment, next_oid, now, req, listing>>

\* vote_topic: find_one and the response
vote_topic_reread(p) ==
    /\ pc[p] = "vote_reread"
    /\ LET doc == find_one(topic, req[p].oid)
       IN Respond(p, HTTP_OK, <<normalize(doc[1])>>)
    /\ pre' = [pre EXCEPT ![p] = <<>>]
    /\ UNCHANGED <<db, topic, post, comment, next_oid, now, req, lt, listing>>

\* POST /api/posts, up to count_documents
create_post(p) ==
    /\ Arrives(p)
    /\ \E topic_id \in Nameable :
        /\ IF db = "None"
           THEN Refuse(p, "create_post", HTTP_SERVER_ERROR)
           ELSE IF ensure_objectid(topic_id) = InvalidID
           THEN Refuse(p, "create_post", HTTP_BAD_REQUEST)
           ELSE /\ Accept(p, "create_post", topic_id, ensure_objectid(topic_id), "none")
                /\ IF count_documents(topic, ensure_objectid(topic_id)) = 0
                   THEN Respond(p, HTTP_NOT_FOUND, <<>>)
                   ELSE pc' = [pc EXCEPT ![p] = "post_insert"] /\ UNCHANGED resp
    /\ UNCHANGED <<db, topic, post, comment, next_oid, now, lt, pre, listing>>

\* create_post: create_document and the response
create_post_insert(p) ==
    /\ pc[p] = "post_insert"
    /\ post' = create_document(post, post_data(req[p].id, req[p].oid),
                               next_oid, now)
    /\ next_oid' = next_oid + 1
    /\ Respond(p, HTTP_OK, <<[id |-> str(next_oid)]>>)
    /\ UNCHANGED <<db, topic, comment, now, req, lt, pre, listing>>

\* POST /api/posts/{post_id}/like, up to the serverStatus command
like_post(p) ==
    /\ Arrives(p)
    /\ \E post_id \in Nameable, action \in {"like", "unlike"} :
        /\ IF db = "None"
           THEN Refuse(p, "like_post", HTTP_SERVER_ERROR) /\ UNCHANGED lt
           ELSE IF action # "like"
           THEN Refuse(p, "like_post", HTTP_BAD_REQUEST) /\ UNCHANGED lt
           ELSE IF ensure_objectid(post_id) = InvalidID
           THEN Refuse(p, "like_post", HTTP_BAD_REQUEST) /\ UNCHANGED lt
           ELSE /\ Accept(p, "like_post", NoReq.id, ensure_objectid(post_id), action)
                /\ lt' = [lt EXCEPT ![p] = now]
                /\ pc' = [pc EXCEPT ![p] = "like_update"]
                /\ UNCHANGED resp
    /\ UNCHANGED <<db, topic, post, comment, next_oid, now, pre, listing>>

\* like_post: update_one and the matched_count test
like_post_update(p) ==
    /\ pc[p] = "like_update"
    /\ LET oid == req[p].oid
       IN /\ post' = update_one(post, oid, "like_count", lt[p])
          /\ lt' = [lt EXCEPT ![p] = 0]
          /\ IF matched_count(post, oid) = 0
             THEN Respond(p, HTTP_NOT_FOUND, <<>>) /\ UNCHANGED pre
             ELSE /\ pc' = [pc EXCEPT ![p] = "like_reread"]
                  /\ pre' = [pre EXCEPT ![p] = <<post[CHOOSE i \in Matching(post, oid) : TRUE]>>]
                  /\ UNCHANGED resp
    /\ UNCHANGED <<db, topic, comment, next_oid, now, req, listing>>

\* like_post: find_one and the response
like_post_reread(p) ==
    /\ pc[p] = "like_reread"
    /\ LET doc == find_one(post, req[p].oid)
       IN Respond(p, HTTP_OK, <<normalize(doc[1])>>)
    /\ pre' = [pre EXCEPT ![p] = <<>>]
    /\ UNCHANGED <<db, topic, post, comment, next_oid, now, req, lt, listing>>

\* POST /api/comments, up to count_documents
create_comment(p) ==
    /\ Arrives(p)
    /\ \E post_id \in Nameable :
        /\ IF db = "None"
           THEN Refuse(p, "create_comment", HTTP_SERVER_ERROR)
           ELSE IF ensure_objectid(post_id) = InvalidID
           THEN Refuse(p, "create_comment", HTTP_BAD_REQUEST)
           ELSE /\ Accept(p, "create_comment", post_id, ensure_objectid(post_id), "none")
                /\ IF count_documents(post, ensure_objectid(post_id)) = 0
                   THEN Respond(p, HTTP_NOT_FOUND, <<>>)
                   ELSE pc' = [pc EXCEPT ![p] = "comment_insert"] /\ UNCHANGED resp
    /\ UNCHANGED <<db, topic, post, comment, next_oid, now, lt, pre, listing>>

\* create_comment: create_document and the response
create_comment_insert(p) ==
    /\ pc[p] = "comment_insert"
    /\ comment' = create_document(comment,
                                  comment_data(req[p].id, req[p].oid),
                                  next_oid, now)
    /\ next_oid' = next_oid + 1
    /\ Respond(p, HTTP_OK, <<[id |-> str(next_oid)]>>)
    /\ UNCHANGED <<db, topic, post, now, req, lt, pre, listing>>

\* the server clock advances; it never goes back
Tick ==
    /\ now < MaxTime
    /\ now' = now + 1
    /\ UNCHANGED <<db, topic, post, comment, next_oid, pc, req, lt, pre, resp, listing>>

Next ==
    \/ \E p \in Procs : create_topic(p)
    \/ \E p \in Procs : vote_topic(p)
    \/ \E p \in Procs : vote_topic_update(p)
    \/ \E p \in Procs : vote_topic_reread(p)
    \/ \E p \in Procs : create_post(p)
    \/ \E p \in Procs : create_post_insert(p)
    \/ \E p \in Procs : like_post(p)
    \/ \E p \in Procs : like_post_update(p)
    \/ \E p \in Procs : like_post_reread(p)
    \/ \E p \in Procs : create_comment(p)
    \/ \E p \in Procs : create_comment_insert(p)
    \/ Tick

Spec == Init /\ [][Next]_vars

\* ---------------------------------------------------------------- listings

\* the identifier strings of the listing requests
ListIdStr == [n : 1..ListOids, form : {"lower", "upper"}] \cup {[n |-> 0, form |-> "bad"]}

\* One listing request is followed: a listing changes nothing, so a second
\* one finds what the first found.
Unlisted == listing.op = "none"

\* GET /api/topics
list_topics ==
    /\ Unlisted
    /\ listing' = list_response("list_topics", NoReq.id, get_documents(topic, <<>>, TOPIC_LIMIT))
    /\ UNCHANGED <<db, topic, post, comment, next_oid, now, pc, req, lt, pre, resp>>

\* GET /api/topics/{topic_id}/posts
list_posts ==
    /\ Unlisted
    /\ \E topic_id \in ListIdStr :
        listing' = list_response("list_posts", topic_id,
                                 get_documents(post, [topic_id |-> topic_id], POST_LIMIT))
    /\ UNCHANGED <<db, topic, post, comment, next_oid, now, pc, req, lt, pre, resp>>

\* GET /api/posts/{post_id}/comments
list_comments ==
    /\ Unlisted
    /\ \E post_id \in ListIdStr :
        listing' = list_response("list_comments", post_id,
                                 get_documents(comment, [post_id |-> post_id], COMMENT_LIMIT))
    /\ UNCHANGED <<db, topic, post, comment, next_oid, now, pc, req, lt, pre, resp>>

\* The collections the listings are checked on.  One collection holds Extra
\* records beside n records that were created one after the other, where n
\* runs around the limit of its listing; the n records are stamped after one
\* of these patterns:
\*   "created"  each at its creation, one clock tick apart, the last the newest
\*   "voted"    each voted or liked once, in the reverse order of creation
\*   "burst"    created within two clock ticks
\*   "unstamped" as "created", every third one written without updated_at (the
\*              database viewer of src/schemas.py writes records directly)
\*   "one_unstamped"  as "created", the last one without updated_at
Patterns == {"created", "voted", "burst", "unstamped", "one_unstamped"}

Stamp(pat, i, n) ==
    CASE pat = "created" -> i
      [] pat = "voted" -> 2 * n - i
      [] pat = "burst" -> i % 2
      [] pat = "unstamped" -> IF i % 3 = 0 THEN None ELSE i
      [] pat = "one_unstamped" -> IF i = n THEN None ELSE i

\* the numbers of records around a limit, and the small ones
Sizes(limit) == (0..Extra) \cup ((limit - Extra)..(limit + Extra))

BulkTopics(n, pat) ==
    [i \in 1..n |-> [_id |-> i, agree_count |-> IF pat = "voted" THEN 1 ELSE 0,
                     disagree_count |-> 0, updated_at |-> Stamp(pat, i, n)]]

\* posts first..first+n-1 of the topic whose _id is parent
BulkPosts(parent, first, n, pat) ==
    [i \in 1..n |-> [_id |-> first + i - 1, topic_id |-> str(parent),
                     like_count |-> IF pat = "voted" THEN 1 ELSE 0,
                     updated_at |-> Stamp(pat, i, n)]]

\* comments first..first+n-1 of the post whose _id is parent
BulkComments(parent, first, n, pat) ==
    [i \in 1..n |-> [_id |-> first + i - 1, post_id |-> str(parent), like_count |-> 0,
                     updated_at |-> Stamp(IF pat = "voted" THEN "created" ELSE pat, i, n)]]

InitList ==
    /\ IdleProcs
    /\ db = "connected"
    /\ \E pat \in Patterns :
        \/ \E n \in Sizes(TOPIC_LIMIT) :
            /\ topic = BulkTopics(n, pat)
            /\ post = <<>>
            /\ comment = <<>>
            /\ next_oid = n + 1
        \/ \E n \in Sizes(POST_LIMIT) :
            /\ topic = BulkTopics(2, "created")
            /\ post = BulkPosts(2, 3, 1, "created") \o BulkPosts(1, 4, n, pat)
            /\ comment = <<>>
            /\ next_oid = n + 4
        \/ \E n \in Sizes(COMMENT_LIMIT) :
            /\ topic = BulkTopics(1, "created")
            /\ post = BulkPosts(1, 2, 1, "created")
            /\ comment = BulkComments(2, 3, n, pat)
            /\ next_oid = n + 3
    /\ now = 2 * next_oid

NextList ==
    \/ list_topics
    \/ list_posts
    \/ list_comments

SpecList == InitList /\ [][NextList]_vars

\* ------------------------------------------------------------------ claims

\* request p is of handler op and names the identifier oid
Names(p, op, oid) == req[p].op = op /\ req[p].oid = oid

\* request p has had its update_one applied to a record
Applied(p) ==
    \/ pc[p] \in {"vote_reread", "like_reread"}
    \/ pc[p] = "done" /\ resp[p].status = HTTP_OK

\* the step of p that leaves position at
StepFrom(p, at) == pc[p] = at /\ pc'[p] # at

\* C1: no increment is lost: in every state and under every interleaving, the
\* agree_count of a Topic (0 before the first vote) is the number of "agree"
\* vote_topic requests on it whose update_one has been applied, so N after N
\* requests have completed; likewise like_count of a Post and like_post.
C1_NoLostIncrement ==
    /\ \A i \in 1..Len(topic) :
        topic[i].agree_count =
            Cardinality({p \in Procs : /\ Names(p, "vote_topic", topic[i]._id)
                                       /\ req[p].arg = "agree"
                                       /\ Applied(p)})
    /\ \A i \in 1..Len(post) :
        post[i].like_count =
            Cardinality({p \in Procs : Names(p, "like_post", post[i]._id) /\ Applied(p)})

\* Two "agree" votes on the same Topic have both completed and it counts 2.
C1_Witness ==
    /\ \A p \in {1, 2} : pc[p] = "done" /\ resp[p].status = HTTP_OK
                         /\ req[p].op = "vote_topic" /\ req[p].arg = "agree"
    /\ req[1].oid = req[2].oid
    /\ \E i \in 1..Len(topic) : topic[i]._id = req[1].oid /\ topic[i].agree_count = 2

\* C2: the update of a vote_topic request with vote agree (disagree) on an
\* existing Topic raises that Topic's agree_count (disagree_count) by exactly 1
\* and leaves its other counter unchanged; the other steps of the request leave
\* the counters alone.
C2_VoteIncrementsOne ==
    [][\A p \in Procs :
        /\ StepFrom(p, "vote_update") =>
            \A i \in Matching(topic, req[p].oid) :
                IF req[p].arg = "agree"
                THEN /\ topic'[i].agree_count = topic[i].agree_count + 1
                     /\ topic'[i].disagree_count = topic[i].disagree_count
                ELSE /\ topic'[i].disagree_count = topic[i].disagree_count + 1
                     /\ topic'[i].agree_count = topic[i].agree_count
        /\ (req'[p].op = "vote_topic" /\ (StepFrom(p, "idle") \/ StepFrom(p, "vote_reread"))) =>
            topic' = topic]_vars

\* A "disagree" vote has been applied to a Topic that had an "agree" vote.
C2_Witness ==
    \E p \in Procs :
        /\ req[p].op = "vote_topic" /\ req[p].arg = "disagree" /\ pc[p] = "vote_reread"
        /\ \E i \in Matching(topic, req[p].oid) :
            topic[i].disagree_count = 1 /\ topic[i].agree_count = 1

\* the like_count of the Post or Comment whose _id is oid, as a set
LikeCountOf(posts, comments, oid) ==
    {posts[i].like_count : i \in Matching(posts, oid)}
        \cup {comments[i].like_count : i \in Matching(comments, oid)}

\* C3: a like request with action "like" on an existing Post or an existing
\* Comment raises the like_count of that record by exactly 1.
C3_LikeIncrementsPostOrComment ==
    [][\A p \in Procs :
        (StepFrom(p, "like_update") /\ req[p].arg = "like") =>
            \A c \in LikeCountOf(post, comment, req[p].oid) :
                LikeCountOf(post', comment', req[p].oid) = {c + 1}]_vars

\* C4: a vote_topic or like_post request with a well-formed identifier that
\* matches no record of its collection answers 404, and no step of it changes
\* the topic, post or comment collection.
C4_NotFoundChangesNothing ==
    [][\A p \in Procs :
        /\ (StepFrom(p, "vote_update") /\ Matching(topic, req[p].oid) = {}) =>
            /\ pc'[p] = "done" /\ resp'[p].status = HTTP_NOT_FOUND
            /\ <<topic, post, comment>>' = <<topic, post, comment>>
        /\ (StepFrom(p, "like_update") /\ Matching(post, req[p].oid) = {}) =>
            /\ pc'[p] = "done" /\ resp'[p].status = HTTP_NOT_FOUND
            /\ <<topic, post, comment>>' = <<topic, post, comment>>
        /\ (StepFrom(p, "idle") /\ req'[p].op \in {"vote_topic", "like_post"}) =>
            <<topic, post, comment>>' = <<topic, post, comment>>]_vars

\* A vote on the identifier of a Post, which no Topic has, was answered 404
\* while a Topic is stored.
C4_Witness ==
    \E p \in Procs :
        /\ req[p].op = "vote_topic" /\ pc[p] = "done" /\ resp[p].status = HTTP_NOT_FOUND
        /\ Len(topic) > 0
        /\ Matching(post, req[p].oid) # {}

\* C5: with the store connected, create_post with a well-formed topic_id that
\* no Topic has answers 404 and leaves the post collection as it was;
\* create_comment with a post_id that no Post has answers 404 and leaves the
\* comment collection as it was.
C5_MissingParentCreatesNothing ==
    [][\A p \in Procs :
        /\ ( /\ StepFrom(p, "idle") /\ req'[p].op = "create_post" /\ db = "connected"
             /\ req'[p].oid # InvalidID
             /\ Matching(topic, req'[p].oid) = {} ) =>
            /\ pc'[p] = "done" /\ resp'[p].status = HTTP_NOT_FOUND
            /\ post' = post
        /\ ( /\ StepFrom(p, "idle") /\ req'[p].op = "create_comment" /\ db = "connected"
             /\ req'[p].oid # InvalidID
             /\ Matching(post, req'[p].oid) = {} ) =>
            /\ pc'[p] = "done" /\ resp'[p].status = HTTP_NOT_FOUND
            /\ comment' = comment]_vars

\* create_post naming the identifier of a Post as its topic was answered 404.
C5_Witness ==
    \E p \in Procs :
        /\ req[p].op = "create_post" /\ pc[p] = "done" /\ resp[p].status = HTTP_NOT_FOUND
        /\ Matching(post, req[p].oid) # {}
        /\ Len(post) = 1

\* C6: in every reachable state every stored Post's topic_id is the string id
\* of a stored Topic and every stored Comment's post_id is the string id of a
\* stored Post.
C6_ParentsExist ==
    /\ \A i \in 1..Len(post) : \E j \in 1..Len(topic) : post[i].topic_id = str(topic[j]._id)
    /\ \A i \in 1..Len(comment) : \E j \in 1..Len(post) : comment[i].post_id = str(post[j]._id)

\* A Post has been created by a request that wrote its topic_id in upper case.
C6_Witness ==
    \E p \in Procs :
        /\ req[p].op = "create_post" /\ req[p].id.form = "upper"
        /\ pc[p] = "done" /\ resp[p].status = HTTP_OK
        /\ Len(post) > 0

\* C7: with a clock that never goes back, the stored updated_at of a Topic or
\* Post never becomes earlier than a value it held before.
C7_UpdatedAtNeverGoesBack ==
    [][/\ \A i \in 1..Len(topic) : topic'[i].updated_at >= topic[i].updated_at
       /\ \A i \in 1..Len(post) : post'[i].updated_at >= post[i].updated_at]_vars

\* the counter a vote_topic or like_post request selects
Selected(p) == IF req[p].op = "vote_topic" THEN inc_field(req[p].arg) ELSE "like_count"

\* the collection a vote_topic or like_post request updates
Target(p) == IF req[p].op = "vote_topic" THEN topic ELSE post

\* C9 as stated: the record a successful vote_topic or like_post returns has
\* its selected counter equal to the value stored immediately before that
\* request's update plus exactly 1.
C9_ReturnsOwnIncrement ==
    [][\A p \in Procs :
        (StepFrom(p, "vote_reread") \/ StepFrom(p, "like_reread")) =>
            resp'[p].body[1][Selected(p)] = pre[p][1][Selected(p)] + 1]_vars

\* C9 amended: the record a successful vote_topic or like_post returns is the
\* target record as stored at the request's re-read, with its identifier in
\* string form: its selected counter is at least the value stored immediately
\* before that request's update plus 1.
C9_ReturnsRecordAtReread ==
    [][\A p \in Procs :
        (StepFrom(p, "vote_reread") \/ StepFrom(p, "like_reread")) =>
            /\ resp'[p].status = HTTP_OK
            /\ \E i \in Matching(Target(p), req[p].oid) :
                resp'[p].body = <<normalize(Target(p)[i])>>
            /\ resp'[p].body[1][Selected(p)] >= pre[p][1][Selected(p)] + 1]_vars

\* A vote has returned a record that counts two more than before its update:
\* another vote on the Topic came between its update and its re-read.
C9_Witness ==
    \E p \in Procs :
        /\ req[p].op = "vote_topic" /\ req[p].arg = "agree"
        /\ pc[p] = "done" /\ resp[p].status = HTTP_OK
        /\ resp[p].body[1].agree_count = 2
        /\ \E q \in Procs : q # p /\ pc[q] = "vote_reread" /\ req[q].arg = "agree"

\* the records of a listing are in descending order of updated_at, those
\* without one (None, below every timestamp) last
Descending(docs) ==
    \A i, j \in 1..Len(docs) : i < j => docs[i].updated_at >= docs[j].updated_at

\* C8: every listing succeeds and returns the fetched records ordered by
\* updated_at descending, the records without updated_at after all the others,
\* whatever the collection holds.
C8_ListingSortedNoneLast ==
    listing.op # "none" => listing.status = HTTP_OK /\ Descending(listing.docs)

\* the records a listing is about: all topics, the posts of the topic named,
\* the comments of the post named
Listed ==
    CASE listing.op = "list_topics" -> topic
      [] listing.op = "list_posts" ->
            SelectSeq(post, LAMBDA d : d.topic_id = listing.id)
      [] listing.op = "list_comments" ->
            SelectSeq(comment, LAMBDA d : d.post_id = listing.id)
      [] OTHER -> <<>>

\* the limit of a listing
LimitOf(op) ==
    CASE op = "list_topics" -> TOPIC_LIMIT
      [] op = "list_posts" -> POST_LIMIT
      [] OTHER -> COMMENT_LIMIT

\* C10: a successful listing returns all matching records when they are at
\* most limit-many, and otherwise exactly limit-many of them, the most recently
\* updated ones: no record left out has an updated_at later than a returned one.
C10_ListingKeepsMostRecent ==
    (listing.op # "none" /\ listing.status = HTTP_OK) =>
        LET returned == {listing.docs[i].id : i \in 1..Len(listing.docs)}
            all == Listed
        IN /\ Len(listing.docs) =
                (IF Len(all) < LimitOf(listing.op) THEN Len(all) ELSE LimitOf(listing.op))
           /\ \A i \in 1..Len(all) :
                str(all[i]._id) \notin returned =>
                    \A j \in 1..Len(listing.docs) :
                        all[i].updated_at <= listing.docs[j].updated_at

====
